---------------------------- MODULE Spec2Model ----------------------------
(***************************************************************************)
(* A model of the Cisco NSO MCP server and of its two chat clients.        *)
(*                                                                         *)
(* The repository holds three programs, each started on its own:           *)
(*   "server"  the MCP server: the tools of src/mcp_server.py and the      *)
(*             packaged tools of src/cisco_nso_mcp_server/server.py with   *)
(*             the service layer of src/services/devices.py;               *)
(*   "web"     the Streamlit chat of src/app.py: a browser session's       *)
(*             script runs and render_chat, the MCPSessionManager they     *)
(*             share with a second browser session, and its setup thread;  *)
(*   "cli"     the terminal chat of src/mcp_test_client.py (MCPClient).    *)
(* A behaviour is a run of one of them: Init picks the program.            *)
(*                                                                         *)
(* Python values are records tagged with their type; a dict received as    *)
(* JSON is a set of <<key, value>> pairs; an exception is a record with    *)
(* its class and message; text the code trims, lowers or tests the ending  *)
(* of is a sequence of one-character strings.                              *)
(***************************************************************************)
EXTENDS Naturals, Sequences, FiniteSets

VARIABLES
    program,    \* which program this behaviour runs
    nso,        \* the state held by NSO (what RESTCONF reads)
    helper,     \* the server's NSORestconfClient / Devices helper objects
    lastCall,   \* server: the last tool invocation [tool, params, outcome]
    response,   \* server: what that invocation returned or raised
    nsoOps,     \* server: the helper operations that invocation issued
    messages,   \* web: st.session_state.messages, the chat history
    webPc,      \* web: where render_chat stands
    webLlm,     \* web: the message of the first (non-streaming) LLM response
    webPending, \* web: the tool calls of that message not yet handled
    webCalls,   \* web: the calls made through the MCP manager for this prompt
    webHistLen, \* web: the length of the history when the prompt arrived
    webPrompts, \* web: the number of prompts submitted so far
    cache,      \* web: the arguments st.cache_resource holds a manager for
    manager,    \* web: the MCPSessionManager get_mcp_manager last made
    created,    \* web: the number of MCPSessionManager objects constructed
    launched,   \* web: the number of MCP server subprocesses launched
    loopRunners, \* web: the threads inside manager.loop.run_until_complete
    otherPc,    \* web: where a second browser session's script stands
    cliPc,      \* cli: where main / chat_loop / process_query stands
    connect,    \* cli: what connect_to_server did
    cliLine,    \* cli: what the last input() gave
    cliMessages, \* cli: process_query's messages
    cliLlm,     \* cli: the message of the first LLM response
    cliPending, \* cli: the tool calls of that message not yet handled
    cliCalls,   \* cli: the calls made through the MCP session for this query
    cliRet,     \* cli: what process_query returned
    cliErrors,  \* cli: the number of errors chat_loop has reported
    cliQueries  \* cli: the number of lines read so far

serverVars == <<nso, helper, lastCall, response, nsoOps>>
managerVars == <<cache, manager, created, launched>>
webVars == <<messages, webPc, webLlm, webPending, webCalls, webHistLen, webPrompts,
             managerVars, loopRunners, otherPc>>
cliVars == <<cliPc, connect, cliLine, cliMessages, cliLlm, cliPending, cliCalls,
             cliRet, cliErrors, cliQueries>>

-----------------------------------------------------------------------------
(* Python values and exceptions *)

PyNone == [type |-> "NoneType"]
PyList(items) == [type |-> "list", items |-> items]
PyDict(fields) == [type |-> "dict", fields |-> fields]

Ret(v) == [kind |-> "return", value |-> v]
Raise(cls, msg) == [kind |-> "raise", exc |-> cls, msg |-> msg]

\* The classes an exception of class cls is an instance of.
Bases(cls) ==
    CASE cls = "HTTPError" -> {"HTTPError", "RequestException", "Exception"}
      [] cls = "RequestException" -> {"RequestException", "Exception"}
      [] OTHER -> {cls, "Exception"}

IsInstance(cls, classes) == Bases(cls) \cap classes # {}

\* dict operations on a set of <<key, value>> pairs
HasKey(d, k) == \E p \in d : p[1] = k
\* params[k]: the value, KeyError for a missing key, TypeError on None
GetItem(params, k) ==
    IF params.none
    THEN Raise("TypeError", "'NoneType' object is not subscriptable")
    ELSE IF HasKey(params.dict, k)
    THEN Ret((CHOOSE p \in params.dict : p[1] = k)[2])
    ELSE Raise("KeyError", "'" \o k \o "'")

\* Python truthiness of a tool's params argument / of a str
NoneParams == [none |-> TRUE, dict |-> {}]
DictParams(d) == [none |-> FALSE, dict |-> d]
Falsy(params) == params.none \/ params.dict = {}


-----------------------------------------------------------------------------
(* NSO and the RESTCONF helper the server reads it through *)

NsoInit ==
    [ned_ids |-> <<"cisco-ios-cli-3.8", "cisco-nx-cli-3.0">>,
     platform |-> [d \in {"ios-0"} |->
                      [name |-> "ios", version |-> "15.1", model |-> "NETSIM"]],
     writes |-> 0]

HelperInit ==
    [scheme |-> "http", address |-> "localhost", port |-> 8080, timeout |-> 10,
     username |-> "admin", password |-> "admin"]

\* The helper operations that only read NSO.
ReadOps == {"get_device_ned_ids", "get_device_platform"}

\* How one RESTCONF exchange can end: NSO answers, the helper hands back
\* None (an empty body), or the exchange raises.
Outcomes == {"ok", "none", "HTTPError", "RequestException", "ValueError", "KeyError"}

ExcMsg(cls) ==
    CASE cls = "HTTPError" -> "404 Client Error: Not Found"
      [] cls = "RequestException" -> "Connection refused"
      [] cls = "ValueError" -> "Invalid JSON in response"
      [] OTHER -> "'tailf-ncs:devices'"

\* devices_helper.<op>(arg) against NSO state n when the exchange ends as
\* outcome: the value read, or the exception raised.
HelperCall(op, arg, outcome, n) ==
    CASE outcome = "none" -> Ret(PyNone)
      [] outcome = "ok" /\ op = "get_device_ned_ids" -> Ret(PyList(n.ned_ids))
      [] outcome = "ok" /\ op = "get_device_platform" /\ arg \in DOMAIN n.platform ->
             Ret(PyDict(n.platform[arg]))
      [] outcome = "ok" -> Raise("HTTPError", ExcMsg("HTTPError"))
      [] OTHER -> Raise(outcome, ExcMsg(outcome))

\* NSO's state after the helper operation op: a read leaves it as it was.
NsoAfter(op, n) ==
    IF op \in ReadOps THEN n ELSE [n EXCEPT !.writes = 1]

RECURSIVE NsoAfterAll(_, _)
NsoAfterAll(ops, n) ==
    IF ops = <<>> THEN n ELSE NsoAfterAll(Tail(ops), NsoAfter(Head(ops), n))

Now == "2025-01-01T00:00:00"

\* The number of prompts a run of the web chat takes.
MaxPrompts == 2

\* The number of lines a run of the terminal chat reads.
MaxQueries == 2

-----------------------------------------------------------------------------
(* The tools of src/mcp_server.py *)

\* What a tool function did: its result (returned dict or raised exception)
\* and the helper operations it issued, in order.
Did(result, ops) == [result |-> result, ops |-> ops]

\* A helper operation that writes to NSO, called in place of the read.
NedIdsOpWrong == "sync_from"
NedIdsOp == "get_device_ned_ids"
PlatformOp == "get_device_platform"

\* A failed exchange tried a second time.
ToThreadRetrying(op, arg, outcome, n) ==
    LET call == HelperCall(op, arg, outcome, n)
    IN  Did(call, IF call.kind = "raise" THEN <<op, op>> ELSE <<op>>)

\* await asyncio.to_thread(devices_helper.<op>, arg): one exchange with NSO.
ToThread(op, arg, outcome, n) == Did(HelperCall(op, arg, outcome, n), <<op>>)

\* len(x): defined on a list, TypeError on None.
PyLen(v) ==
    IF v.type = "list" THEN Ret(Len(v.items))
    ELSE Raise("TypeError", "object of type 'NoneType' has no len()")

ErrorDict(msg) == [status |-> "error", error_message |-> msg]

\* An error response that also carries a data key.
NedErrorDictWithData(msg) ==
    [data |-> [device_ned_ids |-> PyList(<<>>)], status |-> "error",
     error_message |-> msg]

NedErrorDict(msg) ==
    [device_ned_ids |-> PyList(<<>>), status |-> "error", error_message |-> msg]

\* mcp_server.get_device_ned_ids: the try body, then its two handlers.
ServerNedIdsBody(outcome, n) ==
    LET t == ToThread(NedIdsOp, "", outcome, n)
        call == t.result
        count == IF call.kind = "return" THEN PyLen(call.value) ELSE call
    IN  IF call.kind = "raise" THEN t
        ELSE IF count.kind = "raise" THEN Did(count, t.ops)
        ELSE Did(Ret([status |-> "success",
                      data |-> [device_ned_ids |-> call.value],
                      metadata |-> [timestamp |-> Now, count |-> count.value]]),
                 t.ops)

NedIdsHandlers(body) ==
    IF body.kind = "return" THEN body
    ELSE IF IsInstance(body.exc, {"ValueError", "HTTPError", "RequestException"})
         THEN Ret(NedErrorDict(body.msg))
    ELSE IF IsInstance(body.exc, {"Exception"})
         THEN Ret(NedErrorDict("Unexpected error: " \o body.msg))
    ELSE body

ServerGetDeviceNedIds(params, outcome, n) ==
    LET body == ServerNedIdsBody(outcome, n)
    IN  Did(NedIdsHandlers(body.result), body.ops)

MissingDeviceName == ErrorDict("Missing required parameter: device_name")

\* The check without its test for the key.
ParamsRejectedIfFalsy(params) == Falsy(params)

\* The tools' check of params: None, an empty dict, or no "device_name" key.
ParamsRejected(params) == Falsy(params) \/ ~HasKey(params.dict, "device_name")

PlatformSuccess(value, device_name) ==
    [status |-> "success",
     data |-> [device_platform |-> value],
     metadata |-> [timestamp |-> Now, device |-> device_name]]

\* The handlers without the catch-all except Exception.
PlatformHandlersNoCatchAll(body) ==
    IF body.kind = "return" THEN body
    ELSE IF IsInstance(body.exc, {"ValueError", "HTTPError", "RequestException"})
         THEN Ret(ErrorDict(body.msg))
    ELSE body

PlatformHandlers(body) ==
    IF body.kind = "return" THEN body
    ELSE IF IsInstance(body.exc, {"ValueError", "HTTPError", "RequestException"})
         THEN Ret(ErrorDict(body.msg))
    ELSE IF IsInstance(body.exc, {"Exception"})
         THEN Ret(ErrorDict("Unexpected error: " \o body.msg))
    ELSE body

\* mcp_server.get_device_platform
ServerGetDevicePlatform(params, outcome, n) ==
    IF ParamsRejected(params) THEN Did(Ret(MissingDeviceName), <<>>)
    ELSE LET item == GetItem(params, "device_name")
             t == ToThread(PlatformOp, item.value, outcome, n)
         IN  IF item.kind = "raise" THEN Did(PlatformHandlers(item), <<>>)
             ELSE IF t.result.kind = "raise"
             THEN Did(PlatformHandlers(t.result), t.ops)
             ELSE Did(Ret(PlatformSuccess(t.result.value, item.value)), t.ops)

-----------------------------------------------------------------------------
(* The packaged tools: src/cisco_nso_mcp_server/server.py over the service
   layer of src/services/devices.py *)

\* Python truthiness of a str
FalsyStr(s) == s = ""

\* services.devices.get_device_platform
ServiceGetDevicePlatform(device_name, outcome, n) ==
    IF FalsyStr(device_name)
    THEN Did(Raise("ValueError", "Device name is required"), <<>>)
    ELSE LET t == ToThread(PlatformOp, device_name, outcome, n)
             call == t.result
         IN  IF call.kind = "return"
             THEN Did(Ret(PlatformSuccess(call.value, device_name)), t.ops)
             ELSE IF IsInstance(call.exc, {"Exception"})
             THEN Did(Raise("ValueError",
                            "Failed to retrieve platform for device "
                                \o device_name \o ": " \o call.msg),
                      t.ops)
             ELSE t

ServiceNedIdsHandlers(body) ==
    IF body.kind = "return" THEN body
    ELSE IF IsInstance(body.exc, {"ValueError", "RequestException"})
         THEN Ret(NedErrorDict(body.msg))
    ELSE IF IsInstance(body.exc, {"Exception"})
         THEN Ret(NedErrorDict("Unexpected error: " \o body.msg))
    ELSE body

\* services.devices.get_device_ned_ids
ServiceGetDeviceNedIds(outcome, n) ==
    LET body == ServerNedIdsBody(outcome, n)
    IN  Did(ServiceNedIdsHandlers(body.result), body.ops)

\* The tools' own handler: except Exception -> an error dict of str(e).
ToolHandler(did) ==
    IF did.result.kind = "raise" /\ IsInstance(did.result.exc, {"Exception"})
    THEN Did(Ret(ErrorDict(did.result.msg)), did.ops)
    ELSE did

\* register_tools.get_device_platform_tool
GetDevicePlatformToolFn(params, outcome, n) ==
    IF ParamsRejected(params) THEN Did(Ret(MissingDeviceName), <<>>)
    ELSE LET item == GetItem(params, "device_name")
         IN  IF item.kind = "raise" THEN ToolHandler(Did(item, <<>>))
             ELSE ToolHandler(ServiceGetDevicePlatform(item.value, outcome, n))

\* register_tools.get_device_ned_ids_tool
GetDeviceNedIdsToolFn(params, outcome, n) ==
    ToolHandler(ServiceGetDeviceNedIds(outcome, n))

-----------------------------------------------------------------------------
(* The server's actions: one invocation of one tool *)

DeviceNames == {"ios-0", "nx-9", ""}

\* The params a tool can be handed: None, {}, a dict without the key, and a
\* dict naming a device NSO knows, one it does not know, and the empty name.
ParamsSet ==
    {NoneParams, DictParams({}), DictParams({<<"device", "ios-0">>})}
        \cup {DictParams({<<"device_name", d>>}) : d \in DeviceNames}

NoCall == [tool |-> "", params |-> NoneParams, outcome |-> ""]
NoResult == [kind |-> "none"]

Invoke(tool, params, outcome, did) ==
    /\ program = "server"
    /\ lastCall' = [tool |-> tool, params |-> params, outcome |-> outcome]
    /\ response' = did.result
    /\ nsoOps' = did.ops
    /\ nso' = NsoAfterAll(did.ops, nso)
    /\ UNCHANGED <<program, helper, webVars, cliVars>>

get_device_ned_ids ==
    \E params \in ParamsSet, outcome \in Outcomes :
        Invoke("get_device_ned_ids", params, outcome,
               ServerGetDeviceNedIds(params, outcome, nso))

get_device_platform ==
    \E params \in ParamsSet, outcome \in Outcomes :
        Invoke("get_device_platform", params, outcome,
               ServerGetDevicePlatform(params, outcome, nso))

get_device_ned_ids_tool ==
    \E params \in ParamsSet, outcome \in Outcomes :
        Invoke("get_device_ned_ids_tool", params, outcome,
               GetDeviceNedIdsToolFn(params, outcome, nso))

get_device_platform_tool ==
    \E params \in ParamsSet, outcome \in Outcomes :
        Invoke("get_device_platform_tool", params, outcome,
               GetDevicePlatformToolFn(params, outcome, nso))

ServerNext ==
    \/ get_device_ned_ids
    \/ get_device_platform
    \/ get_device_ned_ids_tool
    \/ get_device_platform_tool

ServerInit ==
    /\ nso = NsoInit
    /\ helper = HelperInit
    /\ lastCall = NoCall
    /\ response = NoResult
    /\ nsoOps = <<>>

-----------------------------------------------------------------------------
(* Text: a str the code trims, lowers or tests the ending of is a sequence of
   atoms; " " is whitespace and any other atom is not. *)

PyStr(s) == [type |-> "str", value |-> s]

IsSpace(c) == c \in {" ", "\t", "\n"}

RECURSIVE LStrip(_)
LStrip(t) == IF t # <<>> /\ IsSpace(Head(t)) THEN LStrip(Tail(t)) ELSE t

RECURSIVE RStrip(_)
RStrip(t) ==
    IF t # <<>> /\ IsSpace(t[Len(t)]) THEN RStrip(SubSeq(t, 1, Len(t) - 1)) ELSE t

\* str.strip()
Strip(t) == RStrip(LStrip(t))

UpperCase == <<"A", "B", "C", "D", "E", "F", "G", "H", "I", "J", "K", "L", "M",
               "N", "O", "P", "Q", "R", "S", "T", "U", "V", "W", "X", "Y", "Z">>
LowerCase == <<"a", "b", "c", "d", "e", "f", "g", "h", "i", "j", "k", "l", "m",
               "n", "o", "p", "q", "r", "s", "t", "u", "v", "w", "x", "y", "z">>

LowerChar(c) ==
    IF \E i \in 1..Len(UpperCase) : UpperCase[i] = c
    THEN LowerCase[CHOOSE i \in 1..Len(UpperCase) : UpperCase[i] = c]
    ELSE c

\* str.lower()
Lower(t) == [i \in 1..Len(t) |-> LowerChar(t[i])]

\* suffix in t: a test for containment in place of the ending.
EndsWithAnywhere(t, suffix) ==
    \E i \in 1..Len(t) :
        i + Len(suffix) - 1 <= Len(t) /\ SubSeq(t, i, i + Len(suffix) - 1) = suffix

\* str.endswith(suffix)
EndsWith(t, suffix) ==
    /\ Len(t) >= Len(suffix)
    /\ SubSeq(t, Len(t) - Len(suffix) + 1, Len(t)) = suffix

-----------------------------------------------------------------------------
(* The LLM and the MCP session, as the clients see them *)

ToolCall(id, name, arguments) == [id |-> id, name |-> name, arguments |-> arguments]

ArgsEmpty == <<>>
ArgsBlank == <<" ">>
ArgsDevice == <<"{\"device_name\": \"ios-0\"}">>
ArgsBroken == <<"{\"device_name\": ">>

\* The tool_calls lists an LLM message can carry, ids in the order listed.
ToolCallLists ==
    {<<ToolCall("call_1", "get_device_ned_ids", ArgsEmpty)>>,
     <<ToolCall("call_1", "get_device_platform", ArgsDevice)>>,
     <<ToolCall("call_1", "get_device_ned_ids", ArgsBlank),
       ToolCall("call_2", "get_device_platform", ArgsBroken)>>,
     <<ToolCall("call_1", "get_device_platform", ArgsDevice),
       ToolCall("call_2", "get_device_ned_ids", ArgsEmpty)>>}

\* response.choices[0].message: content is None or a str (possibly empty),
\* tool_calls is None, an empty list or a list of calls.
LlmMessages ==
    [content : {PyNone, PyStr(""), PyStr("Let me check.")},
     tool_calls : {PyNone, PyList(<<>>)} \cup {PyList(l) : l \in ToolCallLists}]

NoLlm == [content |-> PyNone, tool_calls |-> PyNone]

\* process_query has not returned.
NoRet == [type |-> "pending"]

\* A chunk of a streamed response: its delta.content (None, "" or text), or
\* a chunk whose choices list is empty.
Chunk(content) == [choices |-> TRUE, content |-> content]
NoChoices == [choices |-> FALSE]

Streams ==
    {<<>>,
     <<Chunk(PyNone), Chunk(PyStr(""))>>,
     <<Chunk(PyStr("NED ids: ")), Chunk(PyNone), Chunk(PyStr("cisco-ios-cli-3.8"))>>,
     <<Chunk(PyStr("ios-0 runs ")), NoChoices>>}

\* json.loads(text): the dict, or JSONDecodeError
JsonLoads(text) ==
    LET t == Strip(text)
    IN  CASE t = <<"{}">> -> Ret({})
          [] t = ArgsDevice -> Ret({<<"device_name", "ios-0">>})
          [] OTHER -> Raise("JSONDecodeError", "Expecting value")

\* The clients' parsing of tool_call.function.arguments into the dict they
\* send as {"params": ...}.
ParseArguments(arguments) ==
    LET loaded == JsonLoads(arguments)
    IN  IF Strip(arguments) = <<>> THEN {}
        ELSE IF loaded.kind = "raise" THEN {}
        ELSE loaded.value

WrapParams(tool_args) == [params |-> tool_args]

\* json.dumps of the wrapped arguments
JsonDumps(wrapped) ==
    IF wrapped.params = {} THEN "{\"params\": {}}"
    ELSE "{\"params\": {\"device_name\": \""
             \o (CHOOSE p \in wrapped.params : p[1] = "device_name")[2] \o "\"}}"

\* How session.call_tool can end: the server's answer, or an exception (the
\* session is closed or was never set up).
McpOutcomes == {"answer", "raises"}

SessionCallTool(name, wrapped, outcome) ==
    IF outcome = "answer"
    THEN Ret([type |-> "CallToolResult", content |-> "result of " \o name])
    ELSE Raise("McpError", "Connection closed")

-----------------------------------------------------------------------------
(* The web client: src/app.py *)

SystemMessage == [role |-> "system", content |-> "system_prompt"]
WelcomeMessage ==
    [role |-> "assistant",
     content |-> "Welcome to the Cisco NSO Network Assistant!"]

UserMessage(text) == [role |-> "user", content |-> text]
AssistantContent(text) == [role |-> "assistant", content |-> text]

AssistantToolCalls(tool_call, wrapped) ==
    [role |-> "assistant",
     tool_calls |-> <<[id |-> tool_call.id, type |-> "function",
                       function |-> [name |-> tool_call.name,
                                     arguments |-> JsonDumps(wrapped)]]>>]

ToolMessage(id, content) == [role |-> "tool", tool_call_id |-> id, content |-> content]

Prompts == {"Which NED ids are there?"}

\* has_content / has_tool_calls of render_chat
HasContent(message) == message.content # PyNone
HasToolCalls(message) ==
    message.tool_calls # PyNone /\ message.tool_calls.items # <<>>

\* MCPSessionManager.call_tool: the response, or {"error": str(e)}
ManagerCallTool(name, wrapped, outcome) ==
    LET r == SessionCallTool(name, wrapped, outcome)
    IN  IF r.kind = "return" THEN r.value
        ELSE [type |-> "dict", error |-> r.msg]

\* str(result)
StrOf(result) ==
    IF result.type = "dict" THEN "{'error': '" \o result.error \o "'}"
    ELSE "content=[" \o result.content \o "]"

\* handle_streaming_response: the concatenation of the chunks' contents, or
\* IndexError at a chunk without choices.
RECURSIVE HandleStreamingResponse(_, _)
HandleStreamingResponse(stream, full_response) ==
    IF stream = <<>> THEN Ret(full_response)
    ELSE LET chunk == Head(stream)
         IN  IF ~chunk.choices
             THEN Raise("IndexError", "list index out of range")
             ELSE IF chunk.content # PyNone /\ chunk.content.value # ""
             THEN HandleStreamingResponse(Tail(stream),
                                          full_response \o chunk.content.value)
             ELSE HandleStreamingResponse(Tail(stream), full_response)

\* Nothing appended when the stream came back empty.
StreamReplyDroppingEmpty(final_content) ==
    IF final_content # "" THEN <<AssistantContent(final_content)>> ELSE <<>>

\* What render_chat appends after the streamed follow-up response.
StreamReply(final_content) ==
    IF final_content # ""
    THEN <<AssistantContent(final_content)>>
    ELSE <<AssistantContent("No response content received from the model.")>>

\* The tool's result entered before the tool_calls entry it answers.
ToolCallEntriesResultFirst(tool_call, tool_args, content) ==
    <<ToolMessage(tool_call.id, content), AssistantToolCalls(tool_call, tool_args)>>

\* The two history entries of one tool call: the assistant's tool_calls
\* entry, then the tool's result.
ToolCallEntries(tool_call, tool_args, content) ==
    <<AssistantToolCalls(tool_call, tool_args), ToolMessage(tool_call.id, content)>>

-----------------------------------------------------------------------------
(* The MCP session manager of src/app.py, shared by the browser sessions *)

\* The argument Application.main hands to get_mcp_manager.
ServerScriptPath == "mcp_server.py"

\* The tools the server lists.
ListedTools == <<"get_device_ned_ids", "get_device_platform">>

NoManager ==
    [server_script_path |-> "", tools |-> <<>>, session |-> FALSE, thread |-> "none"]

\* MCPSessionManager.__init__: the fields, and the thread _initialize starts.
MCPSessionManager(server_script_path) ==
    [server_script_path |-> server_script_path, tools |-> <<>>, session |-> FALSE,
     thread |-> "started"]

\* No caching: every call runs the function body.
CacheNeverHits(cached, server_script_path) == TRUE

\* st.cache_resource: the function body runs when no value is cached for
\* the argument; the lookup and the construction are one step, because
\* Streamlit holds the cache's lock across them.
CacheMiss(cached, server_script_path) == server_script_path \notin cached

get_mcp_manager(server_script_path) ==
    IF CacheMiss(cache, server_script_path)
    THEN /\ cache' = cache \cup {server_script_path}
         /\ manager' = MCPSessionManager(server_script_path)
         /\ created' = created + 1
    ELSE UNCHANGED <<cache, manager, created>>

\* How setup() goes: all of it, or an exception of stdio_client, or one of
\* session.initialize / list_tools.
SetupOutcomes == {"ok", "spawn_raises", "initialize_raises"}

\* _setup_session on the manager's thread, from run_until_complete(setup())
\* to the end of setup().
SetupSession ==
    /\ program = "web"
    /\ manager.thread = "started"
    /\ \E outcome \in SetupOutcomes :
           /\ manager' = [manager EXCEPT
                              !.thread = "in_loop",
                              !.session = (outcome # "spawn_raises"),
                              !.tools = IF outcome = "ok" THEN ListedTools ELSE <<>>]
           /\ launched' = IF outcome = "spawn_raises" THEN launched ELSE launched + 1
    /\ loopRunners' = loopRunners \cup {"setup"}
    /\ UNCHANGED <<program, serverVars, cliVars, cache, created, otherPc, messages,
                   webPc, webLlm, webPending, webCalls, webHistLen, webPrompts>>

\* run_until_complete(setup()) returns and the thread ends.
SetupReturns ==
    /\ program = "web"
    /\ manager.thread = "in_loop"
    /\ manager' = [manager EXCEPT !.thread = "returned"]
    /\ loopRunners' = loopRunners \ {"setup"}
    /\ UNCHANGED <<program, serverVars, cliVars, cache, created, launched, otherPc,
                   messages, webPc, webLlm, webPending, webCalls, webHistLen,
                   webPrompts>>

\* What loop.run_until_complete does when entered while the threads in
\* runners are inside it. The loop refuses to run twice (RuntimeError: This
\* event loop is already running), by a test of a field the running thread
\* set on entry; the test and the set are not one step, so of two calls
\* entered together both may pass it.
RunUntilComplete(runners) ==
    IF runners = {} THEN {"runs"}
    ELSE IF "setup" \in runners THEN {"RuntimeError"}
    ELSE {"RuntimeError", "runs"}

\* Application.main and configure, one run of the script up to render_chat:
\* while no tools are listed, configure sleeps and reruns the script.
WebMain ==
    /\ program = "web"
    /\ webPc = "start"
    /\ get_mcp_manager(ServerScriptPath)
    /\ messages' = IF messages = <<>> THEN <<SystemMessage, WelcomeMessage>>
                   ELSE messages
    /\ webPc' = IF manager'.tools # <<>> THEN "idle" ELSE "start"
    /\ UNCHANGED <<program, serverVars, cliVars, launched, loopRunners, otherPc,
                   webLlm, webPending, webCalls, webHistLen, webPrompts>>

\* A prompt arrives: it is appended to the history and the LLM is asked.
WebPrompt ==
    /\ program = "web"
    /\ webPc = "idle"
    /\ webPrompts < MaxPrompts
    /\ \E prompt \in Prompts :
           /\ messages' = Append(messages, UserMessage(prompt))
           /\ webHistLen' = Len(messages)
    /\ webPrompts' = webPrompts + 1
    /\ webPc' = "llm"
    /\ UNCHANGED <<program, serverVars, cliVars, managerVars, loopRunners, otherPc,
                   webLlm, webPending, webCalls>>

\* The first LLM call returns: render_chat takes one of its three branches.
WebLlmResponse ==
    /\ program = "web"
    /\ webPc = "llm"
    /\ \E message \in LlmMessages :
           /\ webLlm' = message
           /\ IF ~HasContent(message) /\ HasToolCalls(message)
              THEN /\ webPending' = message.tool_calls.items
                   /\ webPc' = "tools"
                   /\ UNCHANGED messages
              ELSE IF HasContent(message)
              THEN /\ messages' = Append(messages, AssistantContent(message.content.value))
                   /\ webPc' = "rerun"
                   /\ UNCHANGED webPending
              ELSE /\ messages' = Append(messages,
                          AssistantContent("Received an empty response from the model."))
                   /\ webPc' = "rerun"
                   /\ UNCHANGED webPending
    /\ UNCHANGED <<program, serverVars, cliVars, managerVars, loopRunners, otherPc,
                   webCalls, webHistLen, webPrompts>>

\* An iteration of the loop over message.tool_calls, up to call_tool's
\* run_until_complete: a RuntimeError of it leaves call_tool and render_chat.
WebCallTool ==
    /\ program = "web"
    /\ webPc = "tools"
    /\ webPending # <<>>
    /\ \E entry \in RunUntilComplete(loopRunners) :
           LET tool_call == Head(webPending)
               tool_args == WrapParams(ParseArguments(tool_call.arguments))
           IN  IF entry = "RuntimeError"
               THEN /\ webPc' = "raised"
                    /\ UNCHANGED <<loopRunners, webCalls>>
               ELSE /\ webPc' = "calling"
                    /\ loopRunners' = loopRunners \cup {"ui"}
                    /\ webCalls' = Append(webCalls, [id |-> tool_call.id,
                                                     name |-> tool_call.name,
                                                     args |-> tool_args])
    /\ UNCHANGED <<program, serverVars, cliVars, managerVars, otherPc, messages, webLlm,
                   webPending, webHistLen, webPrompts>>

\* call_tool returns and the iteration appends its two entries.
WebCallToolReturns ==
    /\ program = "web"
    /\ webPc = "calling"
    /\ \E outcome \in McpOutcomes :
           LET tool_call == Head(webPending)
               tool_args == WrapParams(ParseArguments(tool_call.arguments))
               result == ManagerCallTool(tool_call.name, tool_args, outcome)
           IN  messages' = messages \o
                   ToolCallEntries(tool_call, tool_args, StrOf(result))
    /\ webPending' = Tail(webPending)
    /\ loopRunners' = loopRunners \ {"ui"}
    /\ webPc' = "tools"
    /\ UNCHANGED <<program, serverVars, cliVars, managerVars, otherPc, webLlm, webCalls,
                   webHistLen, webPrompts>>

\* The streamed follow-up call after the last tool call.
WebFollowUp ==
    /\ program = "web"
    /\ webPc = "tools"
    /\ webPending = <<>>
    /\ \E stream \in Streams :
           LET final == HandleStreamingResponse(stream, "")
           IN  IF final.kind = "raise"
               THEN /\ webPc' = "failed"
                    /\ UNCHANGED messages
               ELSE /\ messages' = messages \o StreamReply(final.value)
                    /\ webPc' = "rerun"
    /\ UNCHANGED <<program, serverVars, cliVars, managerVars, loopRunners, otherPc,
                   webLlm, webPending, webCalls, webHistLen, webPrompts>>

\* An LLM call raises: the exception leaves render_chat, the run ends.
WebLlmRaises ==
    /\ program = "web"
    /\ \/ webPc = "llm"
       \/ webPc = "tools" /\ webPending = <<>>
    /\ webPc' = "failed"
    /\ UNCHANGED <<program, serverVars, cliVars, managerVars, loopRunners, otherPc,
                   messages, webLlm, webPending, webCalls, webHistLen, webPrompts>>

\* st.rerun(), or the next run of the script after one an exception ended.
WebRerun ==
    /\ program = "web"
    /\ webPc \in {"rerun", "failed", "raised"}
    /\ webPc' = "start"
    /\ webLlm' = NoLlm
    /\ webPending' = <<>>
    /\ webCalls' = <<>>
    /\ UNCHANGED <<program, serverVars, cliVars, managerVars, loopRunners, otherPc,
                   messages, webHistLen, webPrompts>>

(* A second browser session runs the same script on a thread of its own,   *)
(* with a chat history of its own. What it does to the manager is kept:    *)
(* its script runs (main) and its tool calls (render_chat's call_tool).    *)

\* Application.main and configure in the second session.
OtherMain ==
    /\ program = "web"
    /\ otherPc = "start"
    /\ get_mcp_manager(ServerScriptPath)
    /\ otherPc' = IF manager'.tools # <<>> THEN "idle" ELSE "start"
    /\ UNCHANGED <<program, serverVars, cliVars, launched, loopRunners, messages,
                   webPc, webLlm, webPending, webCalls, webHistLen, webPrompts>>

\* The second session's render_chat reaches a call_tool.
OtherCallTool ==
    /\ program = "web"
    /\ otherPc = "idle"
    /\ \E entry \in RunUntilComplete(loopRunners) :
           IF entry = "RuntimeError"
           THEN /\ otherPc' = "raised"
                /\ UNCHANGED loopRunners
           ELSE /\ otherPc' = "calling"
                /\ loopRunners' = loopRunners \cup {"other"}
    /\ UNCHANGED <<program, serverVars, cliVars, managerVars, messages, webPc, webLlm,
                   webPending, webCalls, webHistLen, webPrompts>>

\* Its call_tool returns; the rest of its render_chat ends in st.rerun().
OtherCallToolReturns ==
    /\ program = "web"
    /\ otherPc = "calling"
    /\ otherPc' = "start"
    /\ loopRunners' = loopRunners \ {"other"}
    /\ UNCHANGED <<program, serverVars, cliVars, managerVars, messages, webPc, webLlm,
                   webPending, webCalls, webHistLen, webPrompts>>

\* The next run of its script after the one a RuntimeError ended.
OtherRerun ==
    /\ program = "web"
    /\ otherPc = "raised"
    /\ otherPc' = "start"
    /\ UNCHANGED <<program, serverVars, cliVars, managerVars, loopRunners, messages,
                   webPc, webLlm, webPending, webCalls, webHistLen, webPrompts>>

WebNext ==
    \/ SetupSession
    \/ SetupReturns
    \/ WebMain
    \/ WebPrompt
    \/ WebLlmResponse
    \/ WebCallTool
    \/ WebCallToolReturns
    \/ WebFollowUp
    \/ WebLlmRaises
    \/ WebRerun
    \/ OtherMain
    \/ OtherCallTool
    \/ OtherCallToolReturns
    \/ OtherRerun

WebInit ==
    /\ messages = <<>>
    /\ webPc = "start"
    /\ webLlm = NoLlm
    /\ webPending = <<>>
    /\ webCalls = <<>>
    /\ webHistLen = 0
    /\ webPrompts = 0
    /\ cache = {}
    /\ manager = NoManager
    /\ created = 0
    /\ launched = 0
    /\ loopRunners = {}
    /\ otherPc = "start"

-----------------------------------------------------------------------------
(* The terminal client: src/mcp_test_client.py *)

DotPy == <<".", "p", "y">>
DotJs == <<".", "j", "s">>

\* The server script paths tried.
Paths ==
    {<<"s", ".", "p", "y">>, <<"s", ".", "j", "s">>, <<"s", ".", "t", "x", "t">>,
     <<"s", ".", "P", "Y">>, <<"s", ".", "p", "y", "c">>, <<"p", "y">>, <<>>,
     <<"s", ".", "j", "s", ".", "p", "y">>, <<"s", ".", "p", "y", ".", "j", "s">>,
     <<"s", ".", "j", "s", "o", "n">>}

\* sys.argv[1:]: nothing, or the path.
Argvs == {<<>>} \cup {<<path>> : path \in Paths}

NotConnected ==
    [called |-> FALSE, path |-> <<>>, command |-> "", args |-> <<>>,
     started |-> FALSE, session |-> FALSE, raised |-> ""]

\* MCPClient.connect_to_server; spawn tells whether the subprocess and the
\* session come up.
ConnectToServer(server_script_path, spawn) ==
    LET is_python == EndsWith(server_script_path, DotPy)
        is_js == EndsWith(server_script_path, DotJs)
        command == IF is_python THEN "python" ELSE "node"
    IN  IF ~(is_python \/ is_js)
        THEN [NotConnected EXCEPT !.called = TRUE, !.path = server_script_path,
                                  !.raised = "ValueError"]
        ELSE [called |-> TRUE, path |-> server_script_path, command |-> command,
              args |-> <<server_script_path>>, started |-> TRUE,
              session |-> spawn = "up",
              raised |-> IF spawn = "up" THEN "" ELSE "OSError"]

\* main: the usage exit, or connect_to_server and then the chat loop; an
\* exception ends the program after cleanup.
CliMain ==
    /\ program = "cli"
    /\ cliPc = "start"
    /\ \E argv \in Argvs, spawn \in {"up", "fails"} :
           IF Len(argv) < 1
           THEN /\ cliPc' = "exited"
                /\ UNCHANGED connect
           ELSE /\ connect' = ConnectToServer(argv[1], spawn)
                /\ cliPc' = IF connect'.raised = "" THEN "input" ELSE "exited"
    /\ UNCHANGED <<program, serverVars, webVars, cliLine, cliMessages, cliLlm,
                   cliPending, cliCalls, cliRet, cliErrors, cliQueries>>

\* The lines a user types.
Lines ==
    {<<"q", "u", "i", "t">>, <<" ", "Q", "U", "I", "T">>, <<"Q", "u", "i", "t", " ", "\n">>,
     <<"q", "u", "i", "t", " ", "n", "o", "w">>, <<"q", "u", "i">>, <<>>,
     <<"n", "e", "d", "s">>}

NoLine == [eof |-> FALSE, read |-> FALSE, text |-> <<>>]
EofLine == [eof |-> TRUE, read |-> TRUE, text |-> <<>>]
ReadLines == {EofLine} \cup {[eof |-> FALSE, read |-> TRUE, text |-> l] : l \in Lines}

Quit == <<"q", "u", "i", "t">>

\* The test without lower().
QuitEnteredExact(text) == Strip(text) = Quit

\* chat_loop's test of the line read
QuitEntered(text) == Lower(Strip(text)) = Quit

\* One input() of chat_loop: EOFError is reported; 'quit' ends the loop;
\* any other line starts process_query.
CliReadQuery ==
    /\ program = "cli"
    /\ cliPc = "input"
    /\ cliQueries < MaxQueries
    /\ cliQueries' = cliQueries + 1
    /\ \E line \in ReadLines :
           /\ cliLine' = line
           /\ IF line.eof
              THEN /\ cliErrors' = cliErrors + 1
                   /\ UNCHANGED <<cliPc, cliMessages>>
              ELSE IF QuitEntered(line.text)
              THEN /\ cliPc' = "ended"
                   /\ UNCHANGED <<cliErrors, cliMessages>>
              ELSE /\ cliPc' = "llm"
                   /\ cliMessages' = <<SystemMessage, UserMessage(Strip(line.text))>>
                   /\ UNCHANGED cliErrors
    /\ cliLlm' = NoLlm
    /\ cliPending' = <<>>
    /\ cliCalls' = <<>>
    /\ cliRet' = NoRet
    /\ UNCHANGED <<program, serverVars, webVars, connect>>

\* Which way process_query goes on the first LLM response: "tools" (content
\* is None and there are tool calls), "fall_through" (content is None and
\* there are none: the function ends without a return statement) or
\* "stream" (content is not None).
ProcessQueryBranch(message) ==
    IF message.content = PyNone /\ HasToolCalls(message) THEN "tools"
    ELSE IF message.content = PyNone THEN "fall_through"
    ELSE "stream"

\* list_tools and the first LLM call return.
CliLlmResponse ==
    /\ program = "cli"
    /\ cliPc = "llm"
    /\ \E message \in LlmMessages :
           /\ cliLlm' = message
           /\ CASE ProcessQueryBranch(message) = "tools" ->
                       /\ cliPending' = message.tool_calls.items
                       /\ cliPc' = "tools"
                       /\ UNCHANGED cliRet
                [] ProcessQueryBranch(message) = "fall_through" ->
                       /\ cliRet' = PyNone
                       /\ cliPc' = "print"
                       /\ UNCHANGED cliPending
                [] OTHER ->
                       /\ cliPc' = "stream"
                       /\ UNCHANGED <<cliPending, cliRet>>
    /\ UNCHANGED <<program, serverVars, webVars, connect, cliLine, cliMessages,
                   cliCalls, cliErrors, cliQueries>>

\* One iteration of the loop over tool_calls; an exception of
\* session.call_tool leaves process_query and is reported by chat_loop.
CliToolCall ==
    /\ program = "cli"
    /\ cliPc = "tools"
    /\ cliPending # <<>>
    /\ \E outcome \in McpOutcomes :
           LET tool_call == Head(cliPending)
               tool_args == WrapParams(ParseArguments(tool_call.arguments))
               result == SessionCallTool(tool_call.name, tool_args, outcome)
           IN  /\ cliCalls' = Append(cliCalls, [id |-> tool_call.id,
                                               name |-> tool_call.name,
                                               args |-> tool_args])
               /\ IF result.kind = "raise"
                  THEN /\ cliPc' = "input"
                       /\ cliErrors' = cliErrors + 1
                       /\ UNCHANGED <<cliMessages, cliPending>>
                  ELSE /\ cliMessages' = cliMessages \o
                              ToolCallEntries(tool_call, tool_args,
                                              result.value.content)
                       /\ cliPending' = Tail(cliPending)
                       /\ UNCHANGED <<cliPc, cliErrors>>
    /\ UNCHANGED <<program, serverVars, webVars, connect, cliLine, cliLlm, cliRet,
                   cliQueries>>

\* The streamed call (after the tool calls, or for a plain text answer): the
\* chunks are printed as they arrive and process_query returns "".
CliStream ==
    /\ program = "cli"
    /\ \/ cliPc = "stream"
       \/ cliPc = "tools" /\ cliPending = <<>>
    /\ cliRet' = PyStr("")
    /\ cliPc' = "print"
    /\ UNCHANGED <<program, serverVars, webVars, connect, cliLine, cliMessages,
                   cliLlm, cliPending, cliCalls, cliErrors, cliQueries>>

\* list_tools or an LLM call raises: chat_loop reports it and goes on.
CliLlmRaises ==
    /\ program = "cli"
    /\ \/ cliPc \in {"llm", "stream"}
       \/ cliPc = "tools" /\ cliPending = <<>>
    /\ cliPc' = "input"
    /\ cliErrors' = cliErrors + 1
    /\ UNCHANGED <<program, serverVars, webVars, connect, cliLine, cliMessages,
                   cliLlm, cliPending, cliCalls, cliRet, cliQueries>>

\* chat_loop's print("\n" + response): TypeError when response is None.
CliPrint ==
    /\ program = "cli"
    /\ cliPc = "print"
    /\ cliPc' = "input"
    /\ cliErrors' = IF cliRet.type = "str" THEN cliErrors ELSE cliErrors + 1
    /\ UNCHANGED <<program, serverVars, webVars, connect, cliLine, cliMessages,
                   cliLlm, cliPending, cliCalls, cliRet, cliQueries>>

CliNext ==
    \/ CliMain
    \/ CliReadQuery
    \/ CliLlmResponse
    \/ CliToolCall
    \/ CliStream
    \/ CliLlmRaises
    \/ CliPrint

CliInit ==
    /\ cliPc = "start"
    /\ connect = NotConnected
    /\ cliLine = NoLine
    /\ cliMessages = <<>>
    /\ cliLlm = NoLlm
    /\ cliPending = <<>>
    /\ cliCalls = <<>>
    /\ cliRet = NoRet
    /\ cliErrors = 0
    /\ cliQueries = 0

-----------------------------------------------------------------------------
vars == <<program, serverVars, webVars, cliVars>>

Init ==
    /\ program \in {"server", "web", "cli"}
    /\ ServerInit
    /\ WebInit
    /\ CliInit

Next ==
    \/ ServerNext
    \/ WebNext
    \/ CliNext

Spec == Init /\ [][Next]_vars

-----------------------------------------------------------------------------
(* Properties of the server tools *)

Invoked == lastCall # NoCall
NedTools == {"get_device_ned_ids", "get_device_ned_ids_tool"}
PlatformTools == {"get_device_platform", "get_device_platform_tool"}

\* C1: every invocation of a server tool, for any params and any outcome of
\* the NSO call, returns a dictionary whose status is "success" or "error";
\* no exception propagates out of a tool.
C1_ToolReturnsStatus ==
    Invoked => /\ response.kind = "return"
               /\ response.value.status \in {"success", "error"}

\* A tool whose NSO call raised an exception outside the requests hierarchy
\* has returned an error dictionary.
C1_Witness ==
    /\ lastCall.tool = "get_device_platform"
    /\ lastCall.outcome = "KeyError"
    /\ ~ParamsRejected(lastCall.params)
    /\ response.kind = "return"
    /\ response.value.status = "error"

\* The params that pass every check made before the NSO call: the tools'
\* check for the "device_name" key and, in the packaged variant, the
\* service's check that the name is not empty.
C2_ValidationPasses ==
    \/ lastCall.tool \in NedTools
    \/ /\ lastCall.tool = "get_device_platform"
       /\ lastCall.params \in {DictParams({<<"device_name", d>>}) : d \in DeviceNames}
    \/ /\ lastCall.tool = "get_device_platform_tool"
       /\ lastCall.params \in
              {DictParams({<<"device_name", d>>}) : d \in DeviceNames \ {""}}

\* C2: each invocation issues at most one request to NSO, exactly one
\* whenever parameter validation passes, and none when it does not; a failed
\* call is not retried.
C2_AtMostOneRequest ==
    Invoked => /\ Len(nsoOps) <= 1
               /\ C2_ValidationPasses => Len(nsoOps) = 1
               /\ ~C2_ValidationPasses => Len(nsoOps) = 0

\* An invocation whose one request failed.
C2_Witness ==
    /\ Invoked
    /\ lastCall.outcome = "RequestException"
    /\ C2_ValidationPasses
    /\ Len(nsoOps) = 1
    /\ response.value.status = "error"

\* C3: the tools are read-only: after any sequence of invocations NSO's
\* state and the server's client/helper objects are what they were, and the
\* tools have invoked only the two read operations.
C3_ReadOnly ==
    /\ nso = NsoInit
    /\ helper = HelperInit
    /\ \A i \in 1..Len(nsoOps) :
           nsoOps[i] \in {"get_device_ned_ids", "get_device_platform"}

\* A tool has read NSO and failed, and nothing has changed.
C3_Witness ==
    /\ Invoked
    /\ nsoOps = <<"get_device_ned_ids">>
    /\ response.value.status = "error"
    /\ nso = NsoInit

\* The params C4 is about: None, empty, or without the key "device_name".
C4_NoDeviceName ==
    \/ lastCall.params.none
    \/ lastCall.params.dict = {}
    \/ \A p \in lastCall.params.dict : p[1] # "device_name"

\* C4: get_device_platform (either variant) invoked with params that is
\* None, empty or lacks "device_name" returns exactly the error dictionary
\* 'Missing required parameter: device_name' and makes no request to NSO.
C4_MissingDeviceName ==
    (lastCall.tool \in PlatformTools /\ C4_NoDeviceName) =>
        /\ response = Ret([status |-> "error",
                           error_message |-> "Missing required parameter: device_name"])
        /\ nsoOps = <<>>

\* The platform tool was handed a non-empty dict without the key.
C4_Witness ==
    /\ lastCall.tool \in PlatformTools
    /\ lastCall.params = DictParams({<<"device", "ios-0">>})
    /\ response.value.status = "error"
    /\ nsoOps = <<>>

\* C5: a "success" response holds data and metadata and no error_message;
\* an "error" response holds error_message and neither data nor metadata.
C5_ResponseShape ==
    (Invoked /\ response.kind = "return") =>
        LET keys == DOMAIN response.value
        IN  /\ response.value.status = "success" =>
                {"data", "metadata"} \subseteq keys /\ "error_message" \notin keys
            /\ response.value.status = "error" =>
                "error_message" \in keys /\ keys \cap {"data", "metadata"} = {}

\* An error response of the NED-id tool, which carries device_ned_ids too.
C5_Witness ==
    /\ lastCall.tool \in NedTools
    /\ response.kind = "return"
    /\ response.value.status = "error"
    /\ "device_ned_ids" \in DOMAIN response.value

-----------------------------------------------------------------------------
(* Properties of the two clients *)

CallIds(calls) == [i \in 1..Len(calls) |-> calls[i].id]

\* C6: whenever the LLM's response requests tool calls, the client (web and
\* terminal alike) has executed every one of them through the MCP session by
\* the time it has produced its reply, whether or not the response also
\* carries text content.
C6_RequestedToolCallsExecuted ==
    /\ (webPc = "rerun" /\ HasToolCalls(webLlm)) =>
           CallIds(webCalls) = CallIds(webLlm.tool_calls.items)
    /\ (cliPc = "print" /\ HasToolCalls(cliLlm)) =>
           CallIds(cliCalls) = CallIds(cliLlm.tool_calls.items)

IsAssistantContent(m) == m.role = "assistant" /\ "content" \in DOMAIN m

\* C7: in the web client, when the handling of a prompt completes, the
\* history has grown by the user message first and ends with an assistant
\* content message, the only assistant content message added.
C7_PromptGetsOneReply ==
    webPc = "rerun" =>
        LET new == SubSeq(messages, webHistLen + 1, Len(messages))
        IN  /\ Len(new) >= 2
            /\ new[1].role = "user" /\ new[1].content \in Prompts
            /\ IsAssistantContent(new[Len(new)])
            /\ Cardinality({i \in 1..Len(new) : IsAssistantContent(new[i])}) = 1

\* Tool calls were made and the follow-up stream came back empty.
C7_Witness ==
    /\ webPc = "rerun"
    /\ Len(webCalls) = 2
    /\ messages[Len(messages)] =
           [role |-> "assistant",
            content |-> "No response content received from the model."]

\* C8: process_query returns a string, the empty string, for every shape of
\* LLM response.
C8_ProcessQueryReturnsStr ==
    cliPc = "print" => cliRet = [type |-> "str", value |-> ""]

\* The lines that are 'quit' once trimmed and lowered.
C9_QuitLines ==
    {<<"q", "u", "i", "t">>, <<" ", "Q", "U", "I", "T">>,
     <<"Q", "u", "i", "t", " ", "\n">>}

\* C9: the chat loop has ended exactly when the last line read was 'quit'
\* (trimmed, any case); a step that reports an error leaves the loop at its
\* next input().
C9_LoopEndsOnQuitOnly ==
    /\ [](cliPc = "ended" <=>
              (cliLine.read /\ ~cliLine.eof /\ cliLine.text \in C9_QuitLines))
    /\ [][cliErrors' # cliErrors => cliPc' = "input"]_vars

\* A query failed, the loop went on, and 'quit' in capitals ended it.
C9_Witness ==
    /\ cliPc = "ended"
    /\ cliErrors > 0
    /\ cliLine.text = <<" ", "Q", "U", "I", "T">>

C10_PyPaths == {<<"s", ".", "p", "y">>, <<"s", ".", "j", "s", ".", "p", "y">>}
C10_JsPaths == {<<"s", ".", "j", "s">>, <<"s", ".", "p", "y", ".", "j", "s">>}

\* C10: connect_to_server raises ValueError for a path ending in neither
\* '.py' nor '.js', before any subprocess is started or session created;
\* otherwise it launches the script with python for '.py', node for '.js'.
C10_ConnectChecksSuffix ==
    connect.called =>
        /\ connect.path \in C10_PyPaths =>
               /\ connect.started
               /\ connect.command = "python" /\ connect.args = <<connect.path>>
        /\ connect.path \in C10_JsPaths =>
               /\ connect.started
               /\ connect.command = "node" /\ connect.args = <<connect.path>>
        /\ connect.path \notin C10_PyPaths \cup C10_JsPaths =>
               /\ connect.raised = "ValueError"
               /\ ~connect.started /\ ~connect.session
               /\ cliPc = "exited"

\* A path that holds '.py' without ending in it was refused.
C10_Witness ==
    /\ connect.called
    /\ connect.path = <<"s", ".", "p", "y", "c">>
    /\ connect.raised = "ValueError"
    /\ ~connect.started

-----------------------------------------------------------------------------
(* The order in which a client handles the tool calls of one LLM response *)

\* entries holds, for each of the first done calls of requested and in their
\* order, the assistant tool_calls entry followed by the tool result entry,
\* and nothing else.
C12_EntriesInOrder(entries, requested, done) ==
    /\ Len(entries) = 2 * done
    /\ \A i \in 1..done :
           /\ entries[2 * i - 1].role = "assistant"
           /\ "tool_calls" \in DOMAIN entries[2 * i - 1]
           /\ CallIds(entries[2 * i - 1].tool_calls) = <<requested[i].id>>
           /\ entries[2 * i].role = "tool"
           /\ entries[2 * i].tool_call_id = requested[i].id

\* The web client inside the tool call loop: the calls made so far are the
\* first of the requested ones in order, at most the last of them is still
\* in progress, and every completed one has its two entries in the history.
C12_WebInOrder ==
    webPc \in {"tools", "calling", "raised"} =>
        LET requested == webLlm.tool_calls.items
            done == Len(requested) - Len(webPending)
        IN  /\ Len(webCalls) = IF webPc = "calling" THEN done + 1 ELSE done
            /\ CallIds(webCalls) = CallIds(SubSeq(requested, 1, Len(webCalls)))
            /\ C12_EntriesInOrder(SubSeq(messages, webHistLen + 2, Len(messages)),
                                  requested, done)

\* The same for process_query, whose await of call_tool is one step.
C12_CliInOrder ==
    cliPc = "tools" =>
        LET requested == cliLlm.tool_calls.items
            done == Len(requested) - Len(cliPending)
        IN  /\ CallIds(cliCalls) = CallIds(SubSeq(requested, 1, done))
            /\ C12_EntriesInOrder(SubSeq(cliMessages, 3, Len(cliMessages)),
                                  requested, done)

\* C12: a client handles the tool calls of one LLM response one after the
\* other in the order listed: a call is begun only when every earlier one
\* has returned and its assistant tool_calls entry and its tool result entry
\* are in the history; and the step that sends the follow-up LLM request is
\* taken only when no requested call is left.
C12_ToolCallsSequential ==
    /\ [](C12_WebInOrder /\ C12_CliInOrder)
    /\ [][(webPc = "tools" /\ webPc' \in {"rerun", "failed"}) =>
              webPending = <<>>]_vars
    /\ [][(cliPc = "tools" /\ cliPc' # "tools" /\ cliCalls' = cliCalls) =>
              cliPending = <<>>]_vars

\* The second of two requested calls is in progress in the web client: the
\* first one's two entries are in the history, its own are not yet.
C12_Witness ==
    /\ webPc = "calling"
    /\ CallIds(webCalls) = <<"call_1", "call_2">>
    /\ Len(messages) = webHistLen + 3

-----------------------------------------------------------------------------
(* Properties of the web client's session manager *)

\* C11: the MCP session manager is a singleton: over any number of runs of
\* the script in the two browser sessions, once a session has run main
\* exactly one MCPSessionManager has been constructed, the one cached for
\* the server script path, and the MCP server subprocess has been launched
\* at most once.
C11_ManagerIsSingleton ==
    /\ created <= 1
    /\ launched <= 1
    /\ (messages # <<>> \/ otherPc # "start") =>
           /\ created = 1
           /\ cache = {ServerScriptPath}
           /\ manager.server_script_path = ServerScriptPath

\* Both sessions have run the script, the first of them again after a
\* prompt, and the second is inside a tool call on the one manager.
C11_Witness ==
    /\ webPrompts >= 1
    /\ webPc = "idle"
    /\ otherPc = "calling"
    /\ created = 1
    /\ launched = 1

\* C13: at no time do two threads run the manager's event loop: call_tool
\* is never entered while the setup thread is still inside its
\* run_until_complete nor while another call_tool on the shared manager is
\* in progress, so that no call_tool raises.
C13_LoopRunByOneThread ==
    /\ Cardinality(loopRunners) <= 1
    /\ webPc # "raised"
    /\ otherPc # "raised"

=============================================================================
